---- MODULE Spec2Model ----
(***************************************************************************)
(* Model of pipelines/pipeline2/extract_ogg.py: the Ogg page parser        *)
(* (OggSFrame, split_ogg_data_into_frames) and the Opus header extractor   *)
(* (extract_id_header_frame, extract_comment_header_frames,                *)
(* get_header_frames).  Buffers are sequences of bytes (0..255); Python    *)
(* slices, startswith, sum, int.from_bytes and the stable sorted() are     *)
(* computed on those bytes.                                                *)
(***************************************************************************)
EXTENDS Integers, Sequences, FiniteSets, TLC

\* -------------------------------------------------------------------------
\* Program constants and bounds
\* -------------------------------------------------------------------------

\* Size of the fixed part of a page header (the literal 27 of the source).
HeaderSize == 27

\* Largest number of pages laid out in an input buffer.
MaxPages == 4

\* b'OggS'
OggS == <<79, 103, 103, 83>>

\* b'OpusHead'
OpusHead == <<79, 112, 117, 115, 72, 101, 97, 100>>

\* b'OpusTags'
OpusTags == <<79, 112, 117, 115, 84, 97, 103, 115>>

\* -------------------------------------------------------------------------
\* Python primitives on bytes and lists
\* -------------------------------------------------------------------------

Min(a, b) == IF a <= b THEN a ELSE b

\* s[a:b] for 0 <= a, 0 <= b: clamped to the length of s, empty when a >= b.
Slice(s, a, b) == SubSeq(s, a + 1, Min(b, Len(s)))

\* s.startswith(prefix)
StartsWith(s, prefix) ==
    /\ Len(s) >= Len(prefix)
    /\ SubSeq(s, 1, Len(prefix)) = prefix

\* sum(bs)
RECURSIVE Sum(_)
Sum(bs) == IF bs = <<>> THEN 0 ELSE Head(bs) + Sum(Tail(bs))

\* int.from_bytes(bs, 'little')
RECURSIVE FromBytesLittle(_)
FromBytesLittle(bs) ==
    IF bs = <<>> THEN 0 ELSE Head(bs) + 256 * FromBytesLittle(Tail(bs))

\* header_type & 0x01
BitAnd1(b) == b % 2

\* The value None, and a list value where None may stand instead
\* (Optional[List[OggSFrame]]); IsNone(x) is "x is None".
None == [kind |-> "None"]
List(items) == [kind |-> "list", items |-> items]
IsNone(x) == x.kind = "None"

\* -------------------------------------------------------------------------
\* class OggSFrame
\* -------------------------------------------------------------------------

\* The outcome of a constructor call that raises ValueError.
InvalidFrame == [kind |-> "ValueError"]

\* OggSFrame.__init__(frame_data): the frame object, or InvalidFrame.
OggSFrame(frame_data) ==
    IF Len(frame_data) < HeaderSize \/ Slice(frame_data, 0, 4) # OggS
    THEN InvalidFrame
    ELSE LET page_segments == frame_data[27]
             segment_table == Slice(frame_data, HeaderSize, HeaderSize + page_segments)
             page_size     == HeaderSize + page_segments + Sum(segment_table)
         IN  [ kind     |-> "OggSFrame",
               header   |-> [ capture_pattern      |-> Slice(frame_data, 0, 4),
                              version              |-> frame_data[5],
                              header_type          |-> frame_data[6],
                              granule_position     |-> FromBytesLittle(Slice(frame_data, 6, 14)),
                              serial_number        |-> FromBytesLittle(Slice(frame_data, 14, 18)),
                              page_sequence_number |-> FromBytesLittle(Slice(frame_data, 18, 22)),
                              CRC_checksum         |-> Slice(frame_data, 22, 26),
                              segment_count        |-> frame_data[27] ],
               data     |-> Slice(frame_data, HeaderSize + page_segments, page_size),
               raw_data |-> frame_data ]

\* -------------------------------------------------------------------------
\* split_ogg_data_into_frames: the body of one loop iteration, and the sort
\* -------------------------------------------------------------------------

\* header = ogg_data[offset:offset + 27]
HeaderAt(data, off) == Slice(data, off, off + HeaderSize)

\* Mutant of NoValidHeader: the capture pattern is not compared.
NoValidHeaderLengthOnly(data, off) == Len(HeaderAt(data, off)) < HeaderSize

\* The break condition of the loop: no valid header at this offset.
NoValidHeader(data, off) ==
    Len(HeaderAt(data, off)) < HeaderSize \/ Slice(HeaderAt(data, off), 0, 4) # OggS

\* page_size of the page at off, from header[26] and the segment table read.
PageSizeAt(data, off) ==
    LET page_segments == HeaderAt(data, off)[27]
        segment_table == Slice(data, off + HeaderSize, off + HeaderSize + page_segments)
    IN  HeaderSize + page_segments + Sum(segment_table)

\* frame = ogg_data[offset:offset + page_size]
FrameBytesAt(data, off) == Slice(data, off, off + PageSizeAt(data, off))

\* Mutant of InsertSorted: the frame goes in front of the elements of equal key.
RECURSIVE InsertSortedBeforeTies(_, _)
InsertSortedBeforeTies(frame, s) ==
    IF s = <<>> THEN <<frame>>
    ELSE IF frame.header.page_sequence_number > Head(s).header.page_sequence_number
         THEN <<Head(s)>> \o InsertSortedBeforeTies(frame, Tail(s))
         ELSE <<frame>> \o s

\* Insert frame into a sorted list behind every element whose key is not larger.
RECURSIVE InsertSorted(_, _)
InsertSorted(frame, s) ==
    IF s = <<>> THEN <<frame>>
    ELSE IF Head(s).header.page_sequence_number <= frame.header.page_sequence_number
         THEN <<Head(s)>> \o InsertSorted(frame, Tail(s))
         ELSE <<frame>> \o s

\* sorted(frames, key=...): Python's sort is stable.
RECURSIVE Sorted(_)
Sorted(fs) ==
    IF fs = <<>> THEN <<>>
    ELSE InsertSorted(fs[Len(fs)], Sorted(SubSeq(fs, 1, Len(fs) - 1)))

\* -------------------------------------------------------------------------
\* The extractors
\* -------------------------------------------------------------------------

\* Mutant of extract_id_header_frame: the last marked page is returned.
RECURSIVE extract_id_header_frame_Last(_)
extract_id_header_frame_Last(fs) ==
    IF fs = <<>> THEN None
    ELSE IF StartsWith(fs[Len(fs)].data, OpusHead) THEN fs[Len(fs)]
         ELSE extract_id_header_frame_Last(SubSeq(fs, 1, Len(fs) - 1))

\* Mutant of extract_id_header_frame: only the first page is looked at.
extract_id_header_frame_FirstOnly(fs) ==
    IF fs = <<>> THEN None
    ELSE IF StartsWith(Head(fs).data, OpusHead) THEN Head(fs) ELSE None

\* extract_id_header_frame(frames)
RECURSIVE extract_id_header_frame(_)
extract_id_header_frame(fs) ==
    IF fs = <<>> THEN None
    ELSE IF StartsWith(Head(fs).data, OpusHead) THEN Head(fs)
         ELSE extract_id_header_frame(Tail(fs))

\* The for loop of extract_comment_header_frames from index i on, with the
\* flag comment_header_started and the list comment_header_frames so far;
\* the value is what the function returns.
RECURSIVE CommentLoop(_, _, _, _)
CommentLoop(fs, i, started, acc) ==
    IF i > Len(fs) THEN None
    ELSE IF ~started
         THEN IF fs[i].header.page_sequence_number = 1
              THEN CommentLoop(fs, i + 1, TRUE, Append(acc, fs[i]))
              ELSE CommentLoop(fs, i + 1, FALSE, acc)
         ELSE IF BitAnd1(fs[i].header.header_type) = 0
              THEN List(Append(acc, fs[i]))
              ELSE CommentLoop(fs, i + 1, TRUE, Append(acc, fs[i]))

\* Mutant of the loop: the continuation bit of the sequence-1 page is tested too.
RECURSIVE CommentLoopTestsStart(_, _, _, _)
CommentLoopTestsStart(fs, i, started, acc) ==
    IF i > Len(fs) THEN None
    ELSE IF ~started /\ fs[i].header.page_sequence_number # 1
         THEN CommentLoopTestsStart(fs, i + 1, FALSE, acc)
         ELSE IF BitAnd1(fs[i].header.header_type) = 0
              THEN List(Append(acc, fs[i]))
              ELSE CommentLoopTestsStart(fs, i + 1, TRUE, Append(acc, fs[i]))

extract_comment_header_frames_TestsStart(fs) == CommentLoopTestsStart(fs, 1, FALSE, <<>>)

\* Mutant of the loop: the pages collected are returned when the list runs out.
RECURSIVE CommentLoopKeepsPartial(_, _, _, _)
CommentLoopKeepsPartial(fs, i, started, acc) ==
    IF i > Len(fs) THEN (IF started THEN List(acc) ELSE None)
    ELSE IF ~started
         THEN IF fs[i].header.page_sequence_number = 1
              THEN CommentLoopKeepsPartial(fs, i + 1, TRUE, Append(acc, fs[i]))
              ELSE CommentLoopKeepsPartial(fs, i + 1, FALSE, acc)
         ELSE IF BitAnd1(fs[i].header.header_type) = 0
              THEN List(Append(acc, fs[i]))
              ELSE CommentLoopKeepsPartial(fs, i + 1, TRUE, Append(acc, fs[i]))

extract_comment_header_frames_KeepsPartial(fs) == CommentLoopKeepsPartial(fs, 1, FALSE, <<>>)

\* extract_comment_header_frames(frames)
extract_comment_header_frames(fs) == CommentLoop(fs, 1, FALSE, <<>>)

\* Mutant of is_ogg_format: a whole page header is asked for.
is_ogg_format_FullHeader(byte_data) ==
    Len(byte_data) >= HeaderSize /\ StartsWith(byte_data, OggS)

\* is_ogg_format(byte_data)
is_ogg_format(byte_data) == StartsWith(byte_data, OggS)

\* is_opus_format(ogg_frames)
RECURSIVE is_opus_format(_)
is_opus_format(fs) ==
    IF fs = <<>> THEN FALSE
    ELSE IF StartsWith(Head(fs).data, OpusHead) THEN TRUE
         ELSE is_opus_format(Tail(fs))

\* -------------------------------------------------------------------------
\* Input buffers
\* -------------------------------------------------------------------------

\* n.to_bytes(4, 'little') for n < 65536
LE32(n) == <<n % 256, (n \div 256) % 256, 0, 0>>

\* One page laid out as the header format prescribes.
MakePage(seq, header_type, segment_table, payload) ==
    OggS \o <<0, header_type>>
         \o <<3, 2, 0, 0, 0, 0, 0, 0>>
         \o <<7, 1, 0, 0>>
         \o LE32(seq)
         \o <<9, 8, 7, 6>>
         \o <<Len(segment_table)>> \o segment_table \o payload

\* The pages a buffer is laid out from.
PageTemplates ==
    { MakePage(0, 2, <<8>>, OpusHead),
      MakePage(1, 0, <<8>>, OpusTags),
      MakePage(1, 1, <<>>, <<>>),
      MakePage(2, 5, <<2, 0, 1>>, <<65, 66, 67>>),
      MakePage(3, 4, <<8>>, OpusHead) }

RECURSIVE Concat(_)
Concat(ss) == IF ss = <<>> THEN <<>> ELSE Head(ss) \o Concat(Tail(ss))

\* Well-formed streams: up to MaxPages pages in any on-disk order.
Streams ==
    { Concat(ps) : ps \in UNION { [1..n -> PageTemplates] : n \in 0..MaxPages } }

\* Numbers of bytes missing at the end of a truncated stream.
Cuts == {0, 1, 4, 9, 23}

\* Bytes that are no page, found after the last page.
Junk == { <<0>>, <<79, 103, 103, 88>> \o [i \in 1..23 |-> 0] }

\* A stream whose first byte is damaged.
Damaged(s) == IF s = <<>> THEN s ELSE <<0>> \o Tail(s)

InputBuffers ==
    { SubSeq(s, 1, Len(s) - Min(k, Len(s))) : s \in Streams, k \in Cuts }
        \cup { s \o j : s \in Streams, j \in Junk }
        \cup { Damaged(s) : s \in Streams }

\* -------------------------------------------------------------------------
\* State
\* -------------------------------------------------------------------------

VARIABLES
    ogg_data,               \* the byte buffer given to the entry point
    caller,                 \* who called split_ogg_data_into_frames
    pc,                     \* position of the program
    offset,                 \* split_ogg_data_into_frames: offset
    frames,                 \* split_ogg_data_into_frames: frames (scan order)
    iterations,             \* number of times the loop body was entered
    ogg_frames,             \* the list split_ogg_data_into_frames returned
    id_header_frame,        \* result of extract_id_header_frame
    comment_header_frames,  \* result of extract_comment_header_frames
    error                   \* the exception raised, "" for none

vars == <<ogg_data, caller, pc, offset, frames, iterations, ogg_frames,
          id_header_frame, comment_header_frames, error>>

Init ==
    /\ ogg_data \in InputBuffers
    /\ caller = "none"
    /\ pc = "start"
    /\ offset = 0
    /\ frames = <<>>
    /\ iterations = 0
    /\ ogg_frames = <<>>
    /\ id_header_frame = None
    /\ comment_header_frames = None
    /\ error = ""

\* A caller other than get_header_frames calls split_ogg_data_into_frames.
CallSplit ==
    /\ pc = "start"
    /\ caller' = "direct"
    /\ pc' = "scan"
    /\ UNCHANGED <<ogg_data, offset, frames, iterations, ogg_frames,
                   id_header_frame, comment_header_frames, error>>

\* get_header_frames: the buffer is not in Ogg format.
RaiseNotOgg ==
    /\ pc = "start"
    /\ ~is_ogg_format(ogg_data)
    /\ caller' = "get_header_frames"
    /\ pc' = "raised"
    /\ error' = "The file is not in Ogg format."
    /\ UNCHANGED <<ogg_data, offset, frames, iterations, ogg_frames,
                   id_header_frame, comment_header_frames>>

\* get_header_frames: the buffer passes the gate and is split.
GetHeaderFramesSplit ==
    /\ pc = "start"
    /\ is_ogg_format(ogg_data)
    /\ caller' = "get_header_frames"
    /\ pc' = "scan"
    /\ UNCHANGED <<ogg_data, offset, frames, iterations, ogg_frames,
                   id_header_frame, comment_header_frames, error>>

\* Mutant of ScanPage: the offset advances by the page size less the header.
ScanPageAdvancesByBody ==
    /\ pc = "scan"
    /\ offset < Len(ogg_data)
    /\ ~NoValidHeader(ogg_data, offset)
    /\ iterations' = iterations + 1
    /\ frames' = Append(frames, OggSFrame(FrameBytesAt(ogg_data, offset)))
    /\ offset' = offset + PageSizeAt(ogg_data, offset) - HeaderSize
    /\ UNCHANGED <<ogg_data, caller, pc, ogg_frames, id_header_frame,
                   comment_header_frames, error>>

\* One loop iteration that does not break: parse the page, advance the offset.
ScanPage ==
    /\ pc = "scan"
    /\ offset < Len(ogg_data)
    /\ ~NoValidHeader(ogg_data, offset)
    /\ iterations' = iterations + 1
    /\ LET frame == OggSFrame(FrameBytesAt(ogg_data, offset))
       IN  IF frame = InvalidFrame
           THEN /\ pc' = "raised"
                /\ error' = "Invalid OggS frame data."
                /\ UNCHANGED <<frames, offset>>
           ELSE /\ frames' = Append(frames, frame)
                /\ offset' = offset + PageSizeAt(ogg_data, offset)
                /\ UNCHANGED <<pc, error>>
    /\ UNCHANGED <<ogg_data, caller, ogg_frames, id_header_frame, comment_header_frames>>

\* The iteration that breaks: no valid header; sort and return.
ScanBreak ==
    /\ pc = "scan"
    /\ offset < Len(ogg_data)
    /\ NoValidHeader(ogg_data, offset)
    /\ iterations' = iterations + 1
    /\ ogg_frames' = Sorted(frames)
    /\ pc' = "split_returned"
    /\ UNCHANGED <<ogg_data, caller, offset, frames, id_header_frame,
                   comment_header_frames, error>>

\* The loop condition fails: sort and return.
ScanEnd ==
    /\ pc = "scan"
    /\ offset >= Len(ogg_data)
    /\ ogg_frames' = Sorted(frames)
    /\ pc' = "split_returned"
    /\ UNCHANGED <<ogg_data, caller, offset, frames, iterations, id_header_frame,
                   comment_header_frames, error>>

\* A direct call of extract_id_header_frame on the page list.
CallExtractIdHeader ==
    /\ pc = "split_returned"
    /\ caller = "direct"
    /\ id_header_frame' = extract_id_header_frame(ogg_frames)
    /\ pc' = "id_returned"
    /\ UNCHANGED <<ogg_data, caller, offset, frames, iterations, ogg_frames,
                   comment_header_frames, error>>

\* A direct call of extract_comment_header_frames on the page list.
CallExtractCommentHeader ==
    /\ pc = "split_returned"
    /\ caller = "direct"
    /\ comment_header_frames' = extract_comment_header_frames(ogg_frames)
    /\ pc' = "comment_returned"
    /\ UNCHANGED <<ogg_data, caller, offset, frames, iterations, ogg_frames,
                   id_header_frame, error>>

\* get_header_frames: no page carries OpusHead.
RaiseNotOpus ==
    /\ pc = "split_returned"
    /\ caller = "get_header_frames"
    /\ ~is_opus_format(ogg_frames)
    /\ pc' = "raised"
    /\ error' = "The Ogg file does not contain an Opus stream."
    /\ UNCHANGED <<ogg_data, caller, offset, frames, iterations, ogg_frames,
                   id_header_frame, comment_header_frames>>

\* get_header_frames: extract both headers and return the pair.
ReturnHeaderFrames ==
    /\ pc = "split_returned"
    /\ caller = "get_header_frames"
    /\ is_opus_format(ogg_frames)
    /\ id_header_frame' = extract_id_header_frame(ogg_frames)
    /\ comment_header_frames' = extract_comment_header_frames(ogg_frames)
    /\ pc' = "returned"
    /\ UNCHANGED <<ogg_data, caller, offset, frames, iterations, ogg_frames, error>>

Next ==
    \/ CallSplit
    \/ RaiseNotOgg
    \/ GetHeaderFramesSplit
    \/ ScanPage
    \/ ScanBreak
    \/ ScanEnd
    \/ CallExtractIdHeader
    \/ CallExtractCommentHeader
    \/ RaiseNotOpus
    \/ ReturnHeaderFrames

Spec == Init /\ [][Next]_vars

\* -------------------------------------------------------------------------
\* Vocabulary of the properties
\* -------------------------------------------------------------------------

MinOf(S) == CHOOSE i \in S : \A j \in S : i <= j

\* page_sequence_number and continuation bit of a page, read from its bytes.
SeqNo(frame) == FromBytesLittle(SubSeq(frame.raw_data, 19, 22))
BitClear(frame) == frame.raw_data[6] \in { 2 * n : n \in 0..127 }
HasMarker(frame) == Len(frame.data) >= 8 /\ \A k \in 1..8 : frame.data[k] = OpusHead[k]

\* A call of extract_comment_header_frames on ogg_frames has returned.
CommentCallReturned == pc \in {"comment_returned", "returned"}

\* A call of extract_id_header_frame on ogg_frames has returned.
IdCallReturned == pc \in {"id_returned", "returned"}

\* split_ogg_data_into_frames has returned ogg_frames.
SplitReturned == pc \in {"split_returned", "id_returned", "comment_returned", "returned"}
                 \/ (pc = "raised" /\ error = "The Ogg file does not contain an Opus stream.")

\* Positions in ogg_frames of the pages with sequence number 1.
Seq1Positions == { i \in 1..Len(ogg_frames) : SeqNo(ogg_frames[i]) = 1 }

\* Positions behind the first sequence-1 page whose continuation bit is clear.
EndPositions ==
    IF Seq1Positions = {} THEN {}
    ELSE { j \in (MinOf(Seq1Positions) + 1)..Len(ogg_frames) : BitClear(ogg_frames[j]) }

\* The raw spans of the scanned pages, one after the other.
RawSpans == Concat([i \in 1..Len(frames) |-> frames[i].raw_data])

\* The pages of a list with a given sequence number, in list order.
WithSeqNo(fs, n) == SelectSeq(fs, LAMBDA f : SeqNo(f) = n)

\* -------------------------------------------------------------------------
\* Properties
\* -------------------------------------------------------------------------

\* C1: a page sequence returned by extract_comment_header_frames is exactly
\* the contiguous run of the list from the first page with sequence number 1
\* to the first later page whose continuation bit is clear, both included;
\* the pages between them have the bit set, no page behind the terminating
\* page is included, and the bit of the sequence-1 page plays no part.
C1_CommentRunIsFirstSeq1ToFirstClear ==
    (CommentCallReturned /\ ~IsNone(comment_header_frames)) =>
        /\ Seq1Positions # {}
        /\ EndPositions # {}
        /\ comment_header_frames.items =
               SubSeq(ogg_frames, MinOf(Seq1Positions), MinOf(EndPositions))
        /\ \A k \in 2..(Len(comment_header_frames.items) - 1) :
               ~BitClear(comment_header_frames.items[k])
        /\ BitClear(comment_header_frames.items[Len(comment_header_frames.items)])

\* A run of three pages is returned from a list of four, its sequence-1 page
\* has the continuation bit set, and a page behind the run is left out.
C1_Witness ==
    /\ pc = "comment_returned"
    /\ ~IsNone(comment_header_frames)
    /\ Len(comment_header_frames.items) = 3
    /\ ~BitClear(comment_header_frames.items[1])
    /\ Len(ogg_frames) = 4
    /\ MinOf(EndPositions) = 3

\* C2: a returned page sequence is exactly one comment header packet: it
\* begins at the page with sequence number 1 and every other page of it has
\* the continuation flag set; no page that begins a new packet is in it.
C2_ResultIsOnePacket ==
    (CommentCallReturned /\ ~IsNone(comment_header_frames)) =>
        /\ SeqNo(comment_header_frames.items[1]) = 1
        /\ \A k \in 2..Len(comment_header_frames.items) :
               ~BitClear(comment_header_frames.items[k])

\* C3: extract_comment_header_frames returns None exactly when no page has
\* sequence number 1, or no page behind the first such page has a clear
\* continuation bit; the pages collected until then are not returned.
C3_NoneIffNoStartOrNoEnd ==
    CommentCallReturned =>
        (IsNone(comment_header_frames) <=> (Seq1Positions = {} \/ EndPositions = {}))

\* The sequence-1 page is the last page of a list of several pages: None.
C3_Witness ==
    /\ pc = "comment_returned"
    /\ IsNone(comment_header_frames)
    /\ Len(ogg_frames) >= 2
    /\ Seq1Positions = {Len(ogg_frames)}

\* C4: the list split_ogg_data_into_frames returns holds the scanned pages,
\* none dropped or duplicated, in ascending page_sequence_number order, pages
\* of equal sequence number in scan order.
C4_SortedStablePermutation ==
    SplitReturned =>
        /\ Len(ogg_frames) = Len(frames)
        /\ \A i \in 1..(Len(ogg_frames) - 1) :
               SeqNo(ogg_frames[i]) <= SeqNo(ogg_frames[i + 1])
        /\ \A i \in 1..Len(frames) :
               WithSeqNo(ogg_frames, SeqNo(frames[i])) = WithSeqNo(frames, SeqNo(frames[i]))

\* On-disk sequence numbers 0,3,1,1 with two different pages of number 1.
C4_Witness ==
    /\ pc = "split_returned"
    /\ Len(frames) = 4
    /\ SeqNo(frames[1]) = 0 /\ SeqNo(frames[2]) = 3 /\ SeqNo(frames[3]) = 1
    /\ SeqNo(frames[4]) = 1 /\ frames[4] # frames[3]
    /\ ogg_frames = <<frames[1], frames[3], frames[4], frames[2]>>

\* C5: every page the parser produces has len(payload) = sum(segment_table)
\* and len(raw_bytes) = 27 + segment_count + sum(segment_table), the segment
\* table being the segment_count bytes the header declares; a buffer shorter
\* than the declared page yields no page.
C5_PageSizeInvariant ==
    \A i \in 1..Len(frames) :
        LET f == frames[i]
            declared == f.header.segment_count
        IN  /\ Len(f.raw_data) >= HeaderSize + declared
            /\ Len(f.data) = Sum(SubSeq(f.raw_data, HeaderSize + 1, HeaderSize + declared))
            /\ Len(f.raw_data) = HeaderSize + declared + Len(f.data)

\* C6: split_ogg_data_into_frames never raises: it stops at the first offset
\* where fewer than 27 bytes remain or the capture pattern is not OggS and
\* returns the pages of the earlier offsets (none for an empty buffer); the
\* constructor's own check never fails inside the loop.
C6_SplitNeverRaises ==
    /\ error # "Invalid OggS frame data."
    /\ \A i \in 1..Len(frames) :
           Len(frames[i].raw_data) >= 27 /\ SubSeq(frames[i].raw_data, 1, 4) = OggS
    /\ SplitReturned =>
           /\ \/ Len(ogg_data) - offset < 27
              \/ SubSeq(ogg_data, offset + 1, offset + 4) # OggS
           /\ Len(ogg_frames) = Len(frames)
           /\ (ogg_data = <<>> => ogg_frames = <<>>)

\* The scan stopped on bytes that are no page, behind two pages it returned.
C6_Witness ==
    /\ pc = "split_returned"
    /\ caller = "direct"
    /\ Len(ogg_frames) = 2
    /\ Len(ogg_data) - offset >= 27
    /\ SubSeq(ogg_data, offset + 1, offset + 4) # OggS

\* C7: get_header_frames raises the not-Ogg error iff the first 4 bytes are
\* not OggS, before any page is parsed; otherwise the not-Opus error iff no
\* parsed page's payload begins with OpusHead; otherwise it returns the pair.
C7_ThreeOutcomes ==
    (caller = "get_header_frames" /\ pc \in {"raised", "returned"}) =>
        LET ogg  == Len(ogg_data) >= 4 /\ SubSeq(ogg_data, 1, 4) = OggS
            opus == \E i \in 1..Len(frames) : HasMarker(frames[i])
        IN  /\ (pc = "raised" /\ error = "The file is not in Ogg format.") <=> ~ogg
            /\ ~ogg => (frames = <<>> /\ iterations = 0 /\ offset = 0)
            /\ (pc = "raised" /\ error = "The Ogg file does not contain an Opus stream.")
                   <=> (ogg /\ ~opus)
            /\ (pc = "returned" /\ error = "") <=> (ogg /\ opus)

\* A buffer that starts with OggS and yields no page: the not-Opus error.
C7_Witness ==
    /\ caller = "get_header_frames"
    /\ pc = "raised"
    /\ error = "The Ogg file does not contain an Opus stream."
    /\ ogg_data # <<>>
    /\ frames = <<>>

\* C8: extract_id_header_frame returns the first page of the list whose
\* payload starts with OpusHead (the lowest sequence number, the earliest
\* scanned among equal numbers), and None iff no page carries the marker.
C8_IdHeaderIsFirstMarked ==
    IdCallReturned =>
        LET marked == { i \in 1..Len(ogg_frames) : HasMarker(ogg_frames[i]) }
            onDisk == { i \in 1..Len(frames) : HasMarker(frames[i]) }
        IN  /\ IsNone(id_header_frame) <=> (marked = {})
            /\ marked # {} =>
                   /\ id_header_frame = ogg_frames[MinOf(marked)]
                   /\ \A i \in onDisk : SeqNo(id_header_frame) <= SeqNo(frames[i])
                   /\ id_header_frame =
                          frames[MinOf({ i \in onDisk :
                                           SeqNo(frames[i]) = SeqNo(id_header_frame) })]

\* Two different marked pages, the one of higher sequence number first on disk.
C8_Witness ==
    /\ pc = "id_returned"
    /\ ~IsNone(id_header_frame)
    /\ \E i, j \in 1..Len(frames) :
           /\ i < j
           /\ HasMarker(frames[i]) /\ HasMarker(frames[j])
           /\ SeqNo(frames[j]) < SeqNo(frames[i])
           /\ id_header_frame = frames[j]

\* C9: the scan loop terminates: a step of the loop either leaves it or
\* advances the offset by at least 27 (by the size of the page parsed), the
\* loop body runs at most ceil(len/27) times, and the raw spans of the
\* scanned pages tile the buffer from offset 0 to the offset reached, clamped
\* to the buffer length.
C9_ScanTerminates ==
    /\ [](/\ iterations <= (Len(ogg_data) + 26) \div 27
          /\ RawSpans = SubSeq(ogg_data, 1, Min(offset, Len(ogg_data))))
    /\ [][pc = "scan" =>
              \/ pc' = "split_returned"
              \/ /\ pc' = "scan"
                 /\ offset' >= offset + 27
                 /\ offset' = offset + Len(frames'[Len(frames')].raw_data)
                               + (IF offset' > Len(ogg_data)
                                  THEN offset' - Len(ogg_data) ELSE 0)]_vars

\* Four pages were scanned and the loop has ended past the end of a buffer
\* whose last page is truncated.
C9_Witness ==
    /\ pc = "split_returned"
    /\ iterations = 4
    /\ Len(frames) = 4
    /\ offset > Len(ogg_data)

\* C10: when get_header_frames returns, the identification header of the
\* pair is a page whose payload starts with OpusHead, never None; the comment
\* header of the pair may be None.
C10_ReturnedIdHeaderPresent ==
    pc = "returned" =>
        /\ ~IsNone(id_header_frame)
        /\ id_header_frame.kind = "OggSFrame"
        /\ HasMarker(id_header_frame)

\* get_header_frames returned a pair whose comment header is None.
C10_Witness ==
    /\ pc = "returned"
    /\ ~IsNone(id_header_frame)
    /\ IsNone(comment_header_frames)

====
